---- MODULE Spec2Model ----
(***************************************************************************)
(* Verification model of the algorithm I/O contract layer:                 *)
(*   - tanh forward layer  Result::allocate                                *)
(*       (tanh_layer_forward_fpt.cpp)                                      *)
(*   - multi-class classifier quality-metric collections                   *)
(*       (multi_class_classifier_quality_metric_set_types.h)               *)
(*   - regression training Input / Result / PartialResult                  *)
(*       (regression_training_types.h)                                     *)
(* Four specifications share the variables: Spec (allocation), SpecCast    *)
(* (quality-metric collections and the identifier enums), SpecSerial       *)
(* (sequential serialization) and SpecConc (a serializing thread and a     *)
(* writing thread on one PartialResult).                                   *)
(***************************************************************************)
EXTENDS Integers, Sequences, FiniteSets, TLC

\* ------------------------------------------------------------------ bounds
\* Largest extent of a tensor dimension; tensors are two-dimensional [N, D].
MaxExtent == 2
\* Number of distinct object identities (addresses) available to the heap.
MaxObjs == 4
\* Number of slots of a PartialResult (its constructor's nElements).
NPartialSlots == 2
\* Number of distinct contents a model object can have.
MaxVal == 2

VARIABLES
    \* --- tanh forward layer
    inData,     \* layers::forward::Input, slot `data`
    value,      \* forward::Result, slot layers::forward::value
    rfb,        \* forward::Result, slot layers::forward::resultForBackward
    last,       \* the allocate call that has just ended (history), or NoCall
    \* --- quality-metric collections
    resColl,    \* ResultCollection storage, indexed by (size_t)id
    inColl,     \* InputDataCollection storage, indexed by (size_t)id
    lastGet,    \* what the last getResult / getInput returned (history)
    \* --- regression training, serialization
    slots,      \* slot collections of the source Result and PartialResult
    archive,    \* the data archive
    serLast,    \* the last serialize / deserialize call and its result (history)
    \* --- regression training, two threads on one PartialResult
    pcoll,      \* the shared PartialResult's slot collection
    serPc,      \* position of the serializing thread
    serIdx,     \* next slot the serializing thread writes
    image,      \* what the serializing thread has written so far
    seen        \* the states the collection went through during the serialize

allocVars == <<inData, value, rfb, last>>
castVars == <<resColl, inColl, lastGet>>
serialVars == <<slots, archive, serLast>>
concVars == <<pcoll, serPc, serIdx, image, seen>>
vars == <<inData, value, rfb, last, resColl, inColl, lastGet,
          slots, archive, serLast, pcoll, serPc, serIdx, image, seen>>

\* ---------------------------------------------------------------- objects
\* An empty services::SharedPtr: what get(id) returns for a slot never set
\* (or cleared).
Absent == [kind |-> "absent"]

\* Tensor::getDimensions(): the ordered extents of a tensor.
Dims == {<<n, d>> : n \in 1..MaxExtent, d \in 1..MaxExtent}

ObjIds == 1..MaxObjs

\* The identity of a newly created object: an address no live or remembered
\* object has.
FreshId(used) == CHOOSE i \in ObjIds : i \notin used /\ \A j \in ObjIds : j < i => j \in used

IdOf(h) == IF h = Absent THEN {} ELSE {h.id}

\* HomogenTensor<algorithmFPType>(dims, doAllocate), as created at line 55.
NewTensor(id, dims, by) == [kind |-> "tensor", id |-> id, dims |-> dims, by |-> by]

\* new LayerData(), as created at line 62; `from` is what the last
\* setResultForBackward call wrote into it ("none": never written).
NewLayerData(id, by) == [kind |-> "layerData", id |-> id, by |-> by, from |-> [kind |-> "none"]]

\* Outcomes of a storage allocation (spec section 7: a failure propagates to
\* the caller as an allocation-failure signal).
AllocOutcomes == {"ok", "allocFailure"}

\* in->get(data)->getDimensions() on an empty handle is undefined behaviour:
\* the build either faults, or reads some extents and goes on.
UBOutcomes == {[crash |-> TRUE]} \cup {[crash |-> FALSE, dims |-> g] : g \in Dims}

NoCall == [op |-> "none", outcome |-> "none"]

\* The running state of one allocate call.
Frame(v, r) == [value |-> v, rfb |-> r, outcome |-> "running", trace |-> <<>>, derefAbsent |-> FALSE]

\* ------------------------------------------------- tanh forward: allocate
\* DAAL_ALLOCATE_TENSOR_AND_SET(id, dims) at line 55: allocate the storage
\* and bind the new tensor to the value slot.
AllocateTensorAndSet(s, dims, a) ==
    IF a = "allocFailure"
    THEN [s EXCEPT !.outcome = "allocFailure"]
    ELSE [s EXCEPT !.value = NewTensor(FreshId(IdOf(s.value) \cup IdOf(s.rfb)), dims, "allocate"),
                   !.trace = Append(@, "set(value)")]

\* Mutant of ValueStep: the populated slot is not skipped.
ValueStepNoSkip(s, in, a, ub) ==
    LET s0 == [s EXCEPT !.trace = Append(@, "get(value)")]
    IN  IF in = Absent
        THEN IF ub.crash
             THEN [s0 EXCEPT !.outcome = "crashed", !.derefAbsent = TRUE]
             ELSE AllocateTensorAndSet([s0 EXCEPT !.derefAbsent = TRUE], ub.dims, a)
        ELSE AllocateTensorAndSet(s0, in.dims, a)

\* Mutant of ValueStep: the extents are taken in the wrong order.
ValueStepSwappedDims(s, in, a, ub) ==
    LET s0 == [s EXCEPT !.trace = Append(@, "get(value)")]
    IN  IF s0.value # Absent
        THEN s0
        ELSE IF in = Absent
             THEN IF ub.crash
                  THEN [s0 EXCEPT !.outcome = "crashed", !.derefAbsent = TRUE]
                  ELSE AllocateTensorAndSet([s0 EXCEPT !.derefAbsent = TRUE], ub.dims, a)
             ELSE AllocateTensorAndSet(s0, <<in.dims[2], in.dims[1]>>, a)

\* Lines 53-56: if (!get(value)) { ALLOCATE_TENSOR_AND_SET(value, in->get(data)->getDimensions()) }
\* The argument is evaluated first: an empty data handle is dereferenced.
ValueStep(s, in, a, ub) ==
    LET s0 == [s EXCEPT !.trace = Append(@, "get(value)")]
    IN  IF s0.value # Absent
        THEN s0
        ELSE IF in = Absent
             THEN IF ub.crash
                  THEN [s0 EXCEPT !.outcome = "crashed", !.derefAbsent = TRUE]
                  ELSE AllocateTensorAndSet([s0 EXCEPT !.derefAbsent = TRUE], ub.dims, a)
             ELSE AllocateTensorAndSet(s0, in.dims, a)

\* Line 64: the call setResultForBackward(input). Its body is outside the
\* sources at hand; the call and its argument are what is modelled: it
\* writes the LayerData bound to resultForBackward from `in`.
SetResultForBackward(s, in) ==
    [s EXCEPT !.rfb = IF @.kind = "layerData" THEN [@ EXCEPT !.from = in] ELSE @,
              !.trace = Append(@, "setResultForBackward")]

\* Lines 60-63: if (!get(resultForBackward)) { set(resultForBackward, new LayerData()) }
LayerDataStep(s, a) ==
    IF s.rfb # Absent
    THEN s
    ELSE IF a = "allocFailure"
         THEN [s EXCEPT !.outcome = "allocFailure"]
         ELSE [s EXCEPT !.rfb = NewLayerData(FreshId(IdOf(s.value) \cup IdOf(s.rfb)), "allocate"),
                        !.trace = Append(@, "set(resultForBackward)")]

\* Mutant of GatedStep: the predictionStage flag is not consulted.
GatedStepUngated(s, pred, in, a) ==
    LET s1 == LayerDataStep(s, a)
    IN  IF s1.outcome = "running" THEN SetResultForBackward(s1, in) ELSE s1

\* Mutant of GatedStep: setResultForBackward is called only for a LayerData
\* created by this call.
GatedStepCallOnlyWhenNew(s, pred, in, a) ==
    IF pred
    THEN s
    ELSE IF s.rfb # Absent
         THEN s
         ELSE LET s1 == LayerDataStep(s, a)
              IN  IF s1.outcome = "running" THEN SetResultForBackward(s1, in) ELSE s1

\* Lines 57-65: the branch gated by parameter->predictionStage.
GatedStep(s, pred, in, a) ==
    IF pred
    THEN s
    ELSE LET s1 == LayerDataStep(s, a)
         IN  IF s1.outcome = "running" THEN SetResultForBackward(s1, in) ELSE s1

\* Lines 48-66: the body of Result::allocate, from the slots (v, r) it finds.
AllocateBody(v, r, in, pred, a1, a2, ub) ==
    LET s1 == ValueStep(Frame(v, r), in, a1, ub)
    IN  IF s1.outcome = "running" THEN GatedStep(s1, pred, in, a2) ELSE s1

\* Result::allocate(input, par, method), one call. The outcome of the
\* undefined dereference is drawn only when the data handle is absent: it is
\* not read otherwise.
Allocate ==
    /\ last.outcome # "crashed"
    /\ \E pred \in BOOLEAN, a1 \in AllocOutcomes, a2 \in AllocOutcomes,
          ub \in (IF inData = Absent THEN UBOutcomes ELSE {[crash |-> TRUE]}) :
         LET s == AllocateBody(value, rfb, inData, pred, a1, a2, ub)
         IN  /\ value' = s.value
             /\ rfb' = s.rfb
             /\ last' = [op |-> "allocate", pred |-> pred,
                         preValue |-> value, preRfb |-> rfb, preData |-> inData,
                         outcome |-> IF s.outcome = "running" THEN "returned" ELSE s.outcome,
                         trace |-> s.trace, derefAbsent |-> s.derefAbsent]
    /\ UNCHANGED <<inData, castVars, serialVars, concVars>>

\* The caller binds (or clears) the input's data slot.
SetInputData ==
    /\ last.outcome # "crashed"
    /\ \E h \in {Absent} \cup {[kind |-> "input", dims |-> d] : d \in Dims} :
         inData' = h
    /\ last' = NoCall
    /\ UNCHANGED <<value, rfb, castVars, serialVars, concVars>>

\* The caller supplies a pre-allocated tensor for the value slot, or clears it.
SetValue ==
    /\ last.outcome # "crashed"
    /\ \E h \in {Absent} \cup {NewTensor(FreshId(IdOf(value) \cup IdOf(rfb)), d, "caller") : d \in Dims} :
         value' = h
    /\ last' = NoCall
    /\ UNCHANGED <<inData, rfb, castVars, serialVars, concVars>>

\* The caller supplies a LayerData for the resultForBackward slot, or clears it.
SetResultForBackwardSlot ==
    /\ last.outcome # "crashed"
    /\ \E h \in {Absent, NewLayerData(FreshId(IdOf(value) \cup IdOf(rfb)), "caller")} :
         rfb' = h
    /\ last' = NoCall
    /\ UNCHANGED <<inData, value, castVars, serialVars, concVars>>

\* ------------------------------------------------------ identifier enums
\* An enumerator's initializer: none (previous + 1, or 0 for the first), the
\* name of an earlier enumerator, or a literal.
Auto == [kind |-> "auto"]
SameAs(n) == [kind |-> "alias", of |-> n]
Literal(v) == [kind |-> "literal", val |-> v]

\* regression::training::InputId
InputId ==
    << [name |-> "data", init |-> Auto],
       [name |-> "dependentVariables", init |-> Auto],
       [name |-> "lastInputId", init |-> SameAs("dependentVariables")] >>

\* regression::training::ResultId
ResultId ==
    << [name |-> "model", init |-> Auto],
       [name |-> "lastResultId", init |-> SameAs("model")] >>

\* multi_class_classifier::quality_metric_set::QualityMetricId
QualityMetricId ==
    << [name |-> "confusionMatrix", init |-> Literal(0)] >>

\* The value the compiler gives the i-th enumerator of a declaration.
RECURSIVE EnumValue(_, _)
EnumValue(decl, i) ==
    LET e == decl[i]
    IN  CASE e.init.kind = "literal" -> e.init.val
          [] e.init.kind = "alias" ->
                EnumValue(decl, CHOOSE j \in 1..(i - 1) : decl[j].name = e.init.of)
          [] OTHER -> IF i = 1 THEN 0 ELSE EnumValue(decl, i - 1) + 1

\* The enumerators that are the lastXxxId sentinel of their enum.
SentinelNames == {"lastInputId", "lastResultId", "lastQualityMetricId"}
Sentinels(decl) == {i \in 1..Len(decl) : decl[i].name \in SentinelNames}
\* The identifiers proper, and their values.
Identifiers(decl) == (1..Len(decl)) \ Sentinels(decl)
IdValues(decl) == {EnumValue(decl, i) : i \in Identifiers(decl)}
MaxOf(S) == CHOOSE m \in S : \A x \in S : x <= m

\* ------------------------------------------- quality-metric collections
\* Dynamic types of the objects a quality-metric collection can hold.
CMResult == "multiclass_confusion_matrix::Result"
CMInput == "multiclass_confusion_matrix::Input"
ResultTypes == {CMResult, "binary_confusion_matrix::Result", "HomogenNumericTable"}
InputTypes == {CMInput, "binary_confusion_matrix::Input"}

Stored(id, type) == [kind |-> "object", id |-> id, type |-> type]

\* services::staticPointerCast<T, U>(ptr): a static_cast of the held pointer;
\* the dynamic type of the object is not looked at.
StaticPointerCast(h, T) ==
    IF h = Absent THEN Absent
    ELSE [kind |-> "pointer", id |-> h.id, as |-> T, dyn |-> h.type]

\* ResultCollection::getResult(id), lines 85-89.
GetResultOf(coll, id) == StaticPointerCast(coll[id], CMResult)

\* InputDataCollection::getInput(id), lines 108-112.
GetInputOf(coll, id) == StaticPointerCast(coll[id], CMInput)

\* The indexes a QualityMetricId can address.
QMIds == IdValues(QualityMetricId)

\* The base collection binds an object of any serializable type to an index.
AddResult ==
    /\ \E i \in QMIds, h \in {Absent} \cup {Stored(o, t) : o \in ObjIds, t \in ResultTypes} :
         resColl' = [resColl EXCEPT ![i] = h]
    /\ lastGet' = NoCall
    /\ UNCHANGED <<inColl, allocVars, serialVars, concVars>>

\* The base collection binds an input object of any type to an index.
AddInput ==
    /\ \E i \in QMIds, h \in {Absent} \cup {Stored(o, t) : o \in ObjIds, t \in InputTypes} :
         inColl' = [inColl EXCEPT ![i] = h]
    /\ lastGet' = NoCall
    /\ UNCHANGED <<resColl, allocVars, serialVars, concVars>>

GetResult ==
    /\ \E i \in QMIds :
         lastGet' = [op |-> "getResult", outcome |-> "returned", id |-> i, want |-> CMResult,
                     stored |-> resColl[i], ret |-> GetResultOf(resColl, i)]
    /\ UNCHANGED <<resColl, inColl, allocVars, serialVars, concVars>>

GetInput ==
    /\ \E i \in QMIds :
         lastGet' = [op |-> "getInput", outcome |-> "returned", id |-> i, want |-> CMInput,
                     stored |-> inColl[i], ret |-> GetInputOf(inColl, i)]
    /\ UNCHANGED <<resColl, inColl, allocVars, serialVars, concVars>>

\* ----------------------------------- regression training: serialization
Kinds == {"Result", "PartialResult"}

\* The value of an enum's lastXxxId sentinel.
LastId(decl) == EnumValue(decl, CHOOSE i \in Sentinels(decl) : TRUE)

\* Number of slots of an object: a Result has one per ResultId.
NSlots(k) == IF k = "Result" THEN LastId(ResultId) + 1 ELSE NPartialSlots

EmptyColl(k) == [i \in 1..NSlots(k) |-> Absent]

\* The stable per-type serialization tag.
Tag(k) == IF k = "Result" THEN "regression::training::Result"
                          ELSE "regression::training::PartialResult"

\* A regression::Model object: an identity and a content.
ModelObj(id, val) == [kind |-> "model", id |-> id, val |-> val]

\* The address of the object the caller binds to slot i of object k: one
\* caller-side object per slot.
CallerObjId(k, i) == IF k = "Result" THEN i ELSE NSlots("Result") + i

\* What the archive holds of one slot: whether it is bound, and the content
\* of the object; never its address.
Encode(h) == IF h = Absent THEN [present |-> FALSE] ELSE [present |-> TRUE, val |-> h.val]

\* Reading a slot back creates a new object (an address of its own).
Decode(item, i) == IF item.present THEN ModelObj(MaxObjs + i, item.val) ELSE Absent

\* daal::algorithms::Result::serialImpl / PartialResult::serialImpl: the base
\* class writes the slot collection to the archive, or reads it back.
BaseSerialImpl(coll, arch, onDeserialize) ==
    IF onDeserialize
    THEN [coll |-> [i \in 1..Len(arch.items) |-> Decode(arch.items[i], i)], arch |-> arch]
    ELSE [coll |-> coll,
          arch |-> [arch EXCEPT !.items = [i \in 1..Len(coll) |-> Encode(coll[i])]]]

\* Result::serialImpl<Archive, onDeserialize>, lines 183-187.
ResultSerialImpl(coll, arch, onDeserialize) == BaseSerialImpl(coll, arch, onDeserialize)
\* Result::serializeImpl, lines 189-190.
ResultSerializeImpl(coll, arch) == ResultSerialImpl(coll, arch, FALSE)
\* Mutant of ResultDeserializeImpl: the wrong direction is instantiated.
ResultDeserializeImplWrites(coll, arch) == ResultSerialImpl(coll, arch, FALSE)
\* Result::deserializeImpl, lines 192-193.
ResultDeserializeImpl(coll, arch) == ResultSerialImpl(coll, arch, TRUE)

\* PartialResult::serialImpl<Archive, onDeserialize>, lines 130-134.
PartialSerialImpl(coll, arch, onDeserialize) == BaseSerialImpl(coll, arch, onDeserialize)
\* PartialResult::serializeImpl, lines 136-137.
PartialSerializeImpl(coll, arch) == PartialSerialImpl(coll, arch, FALSE)
\* PartialResult::deserializeImpl, lines 139-140.
PartialDeserializeImpl(coll, arch) == PartialSerialImpl(coll, arch, TRUE)

NoArchive == [kind |-> "none"]
NoObject == [kind |-> "none"]

\* Result::set(id, value) and the PartialResult's set: bind or clear a slot.
SetSlot ==
    /\ \E k \in Kinds :
         \E i \in 1..NSlots(k) :
           \E h \in {Absent} \cup {ModelObj(CallerObjId(k, i), v) : v \in 1..MaxVal} :
             slots' = [slots EXCEPT ![k][i] = h]
    /\ UNCHANGED <<archive, serLast, allocVars, castVars, concVars>>

\* serialize(archive): the type's tag, then the virtual serializeImpl.
\* `orig` and `tampered` are history: the collection that was written, and
\* whether the archive was altered since.
Serialize ==
    /\ \E k \in Kinds :
         LET hdr == [kind |-> "archive", tag |-> Tag(k), items |-> <<>>,
                     orig |-> slots[k], tampered |-> FALSE]
             r == IF k = "Result" THEN ResultSerializeImpl(slots[k], hdr)
                                  ELSE PartialSerializeImpl(slots[k], hdr)
         IN  /\ archive' = r.arch
             /\ slots' = [slots EXCEPT ![k] = r.coll]
             /\ serLast' = [op |-> "serialize", outcome |-> "returned", kind |-> k]
    /\ UNCHANGED <<allocVars, castVars, concVars>>

\* The archive's tag is altered in storage or in transit.
CorruptTag ==
    /\ archive # NoArchive
    /\ \E t \in ({Tag(k) : k \in Kinds} \cup {"corrupt"}) \ {archive.tag} :
         archive' = [archive EXCEPT !.tag = t, !.tampered = TRUE]
    /\ serLast' = NoCall
    /\ UNCHANGED <<slots, allocVars, castVars, concVars>>

\* deserialize(archive) into a new object of type k: the tag is compared, then
\* the virtual deserializeImpl reads the object.
Deserialize ==
    /\ archive # NoArchive
    /\ \E k \in Kinds :
         LET tagOk == archive.tag = Tag(k)
             r == IF k = "Result" THEN ResultDeserializeImpl(EmptyColl(k), archive)
                                  ELSE PartialDeserializeImpl(EmptyColl(k), archive)
         IN  /\ archive' = IF tagOk THEN r.arch ELSE archive
             /\ serLast' = [op |-> "deserialize", kind |-> k, tagOk |-> tagOk,
                            outcome |-> IF tagOk THEN "returned" ELSE "SerializationError",
                            restored |-> IF tagOk THEN r.coll ELSE NoObject]
    /\ UNCHANGED <<slots, allocVars, castVars, concVars>>

\* ------------------- regression training: a serialize and a concurrent set
\* The objects the writing thread binds: object v has content v.
ConcHandles == {Absent} \cup {ModelObj(v, v) : v \in 1..MaxVal}

EncodeColl(coll) == [i \in 1..Len(coll) |-> Encode(coll[i])]

\* The serializing thread enters serializeImpl.
SerBegin ==
    /\ serPc = "idle"
    /\ serPc' = "writing"
    /\ serIdx' = 1
    /\ image' = <<>>
    /\ seen' = {pcoll}
    /\ UNCHANGED <<pcoll, allocVars, castVars, serialVars>>

\* It writes the next slot of the collection to the archive.
SerSlot ==
    /\ serPc = "writing"
    /\ serIdx <= Len(pcoll)
    /\ image' = Append(image, Encode(pcoll[serIdx]))
    /\ serIdx' = serIdx + 1
    /\ UNCHANGED <<pcoll, serPc, seen, allocVars, castVars, serialVars>>

\* It returns from serializeImpl.
SerEnd ==
    /\ serPc = "writing"
    /\ serIdx > Len(pcoll)
    /\ serPc' = "done"
    /\ UNCHANGED <<pcoll, serIdx, image, seen, allocVars, castVars, serialVars>>

\* The archive is taken away; the thread may serialize again.
SerReset ==
    /\ serPc = "done"
    /\ serPc' = "idle"
    /\ serIdx' = 1
    /\ image' = <<>>
    /\ seen' = {}
    /\ UNCHANGED <<pcoll, allocVars, castVars, serialVars>>

\* The writing thread calls set(id, value) on the same object; neither set
\* nor serialImpl takes a lock, so the call is enabled at every point.
ConcSet ==
    /\ \E i \in 1..Len(pcoll), h \in ConcHandles :
         /\ pcoll' = [pcoll EXCEPT ![i] = h]
         /\ seen' = IF serPc = "writing" THEN seen \cup {pcoll'} ELSE seen
    /\ UNCHANGED <<serPc, serIdx, image, allocVars, castVars, serialVars>>

\* ------------------------------------------------------- specifications
Init ==
    /\ inData = Absent
    /\ value = Absent
    /\ rfb = Absent
    /\ last = NoCall
    /\ resColl = [i \in QMIds |-> Absent]
    /\ inColl = [i \in QMIds |-> Absent]
    /\ lastGet = NoCall
    /\ slots = [k \in Kinds |-> EmptyColl(k)]
    /\ archive = NoArchive
    /\ serLast = NoCall
    /\ pcoll = EmptyColl("PartialResult")
    /\ serPc = "idle"
    /\ serIdx = 1
    /\ image = <<>>
    /\ seen = {}

Next == SetInputData \/ SetValue \/ SetResultForBackwardSlot \/ Allocate
Spec == Init /\ [][Next]_vars

NextCast == AddResult \/ AddInput \/ GetResult \/ GetInput
SpecCast == Init /\ [][NextCast]_vars

NextSerial == SetSlot \/ Serialize \/ CorruptTag \/ Deserialize
SpecSerial == Init /\ [][NextSerial]_vars

NextConc == SerBegin \/ SerSlot \/ SerEnd \/ SerReset \/ ConcSet
SpecConc == Init /\ [][NextConc]_vars

\* ------------------------------------------------------------- properties
Returned == last.op = "allocate" /\ last.outcome = "returned"

EventsOf(trace, e) == {i \in 1..Len(trace) : trace[i] = e}

\* C1: a result slot (value, resultForBackward) that is populated when
\* allocate is called is skipped: after the call the slot is bound to the
\* same object as before, whatever the stage and however the call ends.
C1_AllocationIdempotence ==
    last.op = "allocate" =>
        /\ last.preValue # Absent => (value # Absent /\ value.id = last.preValue.id)
        /\ last.preRfb # Absent => (rfb # Absent /\ rfb.id = last.preRfb.id)

\* C1 witness: a second allocate finds both slots populated by an earlier
\* allocate.
C1_Witness ==
    /\ Returned
    /\ ~last.pred
    /\ last.preValue # Absent /\ last.preValue.by = "allocate"
    /\ last.preRfb # Absent /\ last.preRfb.by = "allocate"

\* C2: with predictionStage set, a resultForBackward slot that is absent
\* remains absent after allocate; with predictionStage not set, the slot is
\* present after allocate returns.
C2_PredictionStageGating ==
    last.op = "allocate" =>
        /\ (last.pred /\ last.preRfb = Absent) => rfb = Absent
        /\ (~last.pred /\ last.outcome = "returned") => rfb # Absent

\* C2 witness: a prediction-stage allocate has allocated the value and left
\* resultForBackward absent.
C2_Witness ==
    /\ Returned
    /\ last.pred
    /\ last.preValue = Absent /\ value # Absent
    /\ last.preRfb = Absent /\ rfb = Absent

\* C3 (as stated): after allocate returns, every required slot is present
\* and the value slot holds a tensor with the dimensions of the input's
\* data tensor.
C3_ValueShapedAsInput ==
    (Returned /\ last.preData # Absent) =>
        /\ value # Absent /\ value.dims = last.preData.dims
        /\ ~last.pred => rfb # Absent

\* C3 (amended): after allocate returns, every required slot is present; a
\* value slot that was absent at the call holds a new tensor with the
\* dimensions of the input's data tensor; a value slot that was populated at
\* the call is kept as it was, whatever its dimensions.
C3_ShapePropagation ==
    Returned =>
        /\ value # Absent
        /\ ~last.pred => rfb # Absent
        /\ (last.preValue = Absent /\ last.preData # Absent) =>
               (value.dims = last.preData.dims /\ value.by = "allocate")
        /\ last.preValue # Absent => value = last.preValue

\* C3 witness: allocate has created the value tensor for a non-square input.
C3_Witness ==
    /\ Returned
    /\ last.preValue = Absent
    /\ last.preData # Absent
    /\ last.preData.dims[1] # last.preData.dims[2]
    /\ value # Absent

\* C6 (as stated): an allocate call ends either by returning or with the
\* allocation-failure signal, and when it returns no required slot is null.
C6_OnlyAllocationFailure ==
    last.op = "allocate" =>
        /\ last.outcome \in {"returned", "allocFailure"}
        /\ last.outcome = "returned" => (value # Absent /\ (~last.pred => rfb # Absent))

\* C7 (as stated): allocate called with an input whose data slot is absent
\* does not dereference the absent handle, and does not crash.
C7_AbsentInputNotDereferenced ==
    (last.op = "allocate" /\ last.preData = Absent) =>
        (~last.derefAbsent /\ last.outcome # "crashed")

C4_CheckedDownCast ==
    (lastGet.op \in {"getResult", "getInput"} /\ lastGet.stored # Absent) =>
        IF lastGet.stored.type = lastGet.want
        THEN lastGet.ret # Absent /\ lastGet.ret.id = lastGet.stored.id
        ELSE lastGet.ret = Absent

\* C9 (as stated): every identifier enum is densely packed from 0 and has a
\* lastXxxId sentinel equal to its largest identifier, the bound by which
\* the collections keyed by the enum are sized.
C9_EnumsDenseWithSentinel ==
    /\ DOMAIN resColl = IdValues(QualityMetricId)
    /\ DOMAIN inColl = IdValues(QualityMetricId)
    /\ \A decl \in {InputId, ResultId, QualityMetricId} :
          /\ IdValues(decl) = 0..(Cardinality(Identifiers(decl)) - 1)
          /\ Sentinels(decl) # {}
          /\ \A i \in Sentinels(decl) : EnumValue(decl, i) = MaxOf(IdValues(decl))

\* Two collections agree slot by slot: the same slots populated, with objects
\* of equal content.
SameByValue(a, b) ==
    /\ Len(a) = Len(b)
    /\ \A i \in 1..Len(a) :
         /\ a[i] = Absent <=> b[i] = Absent
         /\ a[i] # Absent => a[i].val = b[i].val

====
